---------------------------- MODULE Spec2Model ----------------------------
(***************************************************************************)
(* A model of the ciao launcher's restart path and of the payloads it      *)
(* reports with.                                                           *)
(*                                                                         *)
(*   ciao-launcher/restart.go    processRestart, restartError.send         *)
(*   payloads/restartfailure_test.go   the restart failure reasons, their  *)
(*                               descriptions and the error document       *)
(*   payloads (stop/delete tests)      the stop and delete documents       *)
(*                                                                         *)
(* Every instance runs its restart command as its own unit of work; the    *)
(* steps of processRestart are the calls it makes to the provisioning      *)
(* adapters, and the steps of different instances interleave freely.       *)
(***************************************************************************)
EXTENDS Integers, Sequences, FiniteSets

(***************************************************************************)
(* Bounds of the model.                                                    *)
(***************************************************************************)
\* Instances with a restart command in flight at the same time.
NumInstances == 2

\* Restart commands the dispatcher hands to the engine in one run, over all
\* instances.
MaxRestarts == 2

\* Instance and agent UUIDs the payload documents are built over.
NumUUIDs == 3

\* Characters of a package name, and packages in a list, given to
\* findCommonPrefix.
MaxNameLen == 3

MaxTests == 2

(***************************************************************************)
(* Names.                                                                  *)
(***************************************************************************)
UUIDPool ==
    << "3390740c-dce9-48d6-b83a-a717417072ce",
       "59460b8a-5f53-4e3e-b5ce-b71fed8c7e64",
       "2400bce6-ccc8-4a45-b2aa-b5cc3790077b",
       "4e16e743-265a-4bf2-9fd1-57ada0b28904" >>

VnicPool == << "vnic_1", "vnic_2", "vnic_3", "vnic_4" >>

Instances == 1..NumInstances

\* The instance string the caller passes to send.
InstanceUUID(i) == UUIDPool[i]

\* The RestartFailureReason members.
RestartNoInstance      == "NoInstance"
RestartInvalidPayload  == "InvalidPayload"
RestartInvalidData     == "InvalidData"
RestartAlreadyRunning  == "AlreadyRunning"
RestartInstanceCorrupt == "InstanceCorrupt"
RestartLaunchFailure   == "LaunchFailure"
RestartNetworkFailure  == "NetworkFailure"

RestartFailureReason ==
    { RestartNoInstance, RestartInvalidPayload, RestartInvalidData,
      RestartAlreadyRunning, RestartInstanceCorrupt, RestartLaunchFailure,
      RestartNetworkFailure }

\* ssntp.RestartFailure, the kind of error frame send hands to the channel.
SsntpRestartFailure == "RestartFailure"

\* Go's nil error, and the errors the three adapters return.
NoErr      == "nil"
ErrVnicCfg == "createVnicCfg failed"
ErrVnic    == "createVnic failed"
ErrStartVM == "startVM failed"
ErrSend    == "SendError failed"


(***************************************************************************)
(* The payload codec.  A document is the sequence of its lines; a line is  *)
(* its indentation, its key and its scalar (empty for a key that opens a   *)
(* nested mapping).                                                        *)
(***************************************************************************)
Line(indent, key, value) == [indent |-> indent, key |-> key, value |-> value]

\* The token a reason is serialised as.
ReasonToken(r) ==
    CASE r = RestartNoInstance      -> "no_instance"
      [] r = RestartInvalidPayload  -> "invalid_payload"
      [] r = RestartInvalidData     -> "invalid_data"
      [] r = RestartAlreadyRunning  -> "already_running"
      [] r = RestartInstanceCorrupt -> "instance_corrupt"
      [] r = RestartLaunchFailure   -> "launch_failure"
      [] r = RestartNetworkFailure  -> "network_failure"
      [] OTHER                      -> ""

\* The reasons a token names: one for a known token, none for any other.
TokenReasons(t) == { r \in RestartFailureReason : ReasonToken(r) = t }

\* The fixtures of the tests.
restartFailureYaml(instanceUUID, token) ==
    << Line(0, "instance_uuid", instanceUUID),
       Line(0, "reason", token) >>

stopYaml(instanceUUID, agentUUID) ==
    << Line(0, "stop", ""),
       Line(2, "instance_uuid", instanceUUID),
       Line(2, "workload_agent_uuid", agentUUID) >>

deleteYaml(instanceUUID, agentUUID) ==
    << Line(0, "delete", ""),
       Line(2, "instance_uuid", instanceUUID),
       Line(2, "workload_agent_uuid", agentUUID) >>

\* The typed values.
ErrorRestartFailure(instanceUUID, reason) ==
    [type |-> "restart_failure", InstanceUUID |-> instanceUUID, Reason |-> reason]

Command(cmd, instanceUUID, agentUUID) ==
    [type |-> cmd, InstanceUUID |-> instanceUUID, WorkloadAgentUUID |-> agentUUID]

CommandKinds == {"stop", "delete"}

\* An encoder that writes a command's agent before its instance.
MarshalFields_AgentFirst(indent, x) ==
    IF x.type = "restart_failure"
    THEN << Line(indent, "instance_uuid", x.InstanceUUID),
            Line(indent, "reason", ReasonToken(x.Reason)) >>
    ELSE << Line(indent, "workload_agent_uuid", x.WorkloadAgentUUID),
            Line(indent, "instance_uuid", x.InstanceUUID) >>

\* encode: the fields of a variant in their fixed order.
MarshalFields(indent, x) ==
    IF x.type = "restart_failure"
    THEN << Line(indent, "instance_uuid", x.InstanceUUID),
            Line(indent, "reason", ReasonToken(x.Reason)) >>
    ELSE << Line(indent, "instance_uuid", x.InstanceUUID),
            Line(indent, "workload_agent_uuid", x.WorkloadAgentUUID) >>

Marshal(x) ==
    IF x.type = "restart_failure"
    THEN MarshalFields(0, x)
    ELSE << Line(0, x.type, "") >> \o MarshalFields(2, x)

\* decode: the lines of one mapping, looked up by key.
Keys(lines) == { lines[k].key : k \in DOMAIN lines }

Occurrences(lines, key) == { k \in DOMAIN lines : lines[k].key = key }

Scalar(lines, key) == lines[CHOOSE k \in Occurrences(lines, key) : TRUE].value

DecodeError(what) == [ok |-> FALSE, error |-> what]

Decoded(x) == [ok |-> TRUE, value |-> x]

MissingOrRepeated(lines, key) == Cardinality(Occurrences(lines, key)) # 1

UnmarshalCommandFields(cmd, lines) ==
    IF \E k \in DOMAIN lines : lines[k].indent # 2
    THEN DecodeError("bad nesting")
    ELSE IF MissingOrRepeated(lines, "instance_uuid")
    THEN DecodeError("instance_uuid")
    ELSE IF MissingOrRepeated(lines, "workload_agent_uuid")
    THEN DecodeError("workload_agent_uuid")
    ELSE IF Keys(lines) # {"instance_uuid", "workload_agent_uuid"}
    THEN DecodeError("unknown field")
    ELSE Decoded(Command(cmd, Scalar(lines, "instance_uuid"),
                         Scalar(lines, "workload_agent_uuid")))

UnmarshalRestartFailure(doc) ==
    IF \E k \in DOMAIN doc : doc[k].indent # 0
    THEN DecodeError("bad nesting")
    ELSE IF MissingOrRepeated(doc, "instance_uuid")
    THEN DecodeError("instance_uuid")
    ELSE IF MissingOrRepeated(doc, "reason")
    THEN DecodeError("reason")
    ELSE IF Keys(doc) # {"instance_uuid", "reason"}
    THEN DecodeError("unknown field")
    ELSE IF TokenReasons(Scalar(doc, "reason")) = {}
    THEN DecodeError("unknown reason")
    ELSE Decoded(ErrorRestartFailure(
                     Scalar(doc, "instance_uuid"),
                     CHOOSE r \in TokenReasons(Scalar(doc, "reason")) : TRUE))

\* The single top-level key selects the variant.
Unmarshal(doc) ==
    IF doc = << >>
    THEN DecodeError("empty document")
    ELSE IF doc[1].indent = 0 /\ doc[1].key \in CommandKinds /\ doc[1].value = ""
    THEN UnmarshalCommandFields(doc[1].key, Tail(doc))
    ELSE IF doc[1].indent = 0 /\ doc[1].key \in {"instance_uuid", "reason"}
    THEN UnmarshalRestartFailure(doc)
    ELSE DecodeError("unknown top-level key")

\* A String that was not taught the last reason.
String_ForgetsNetworkFailure(r) ==
    CASE r = RestartNoInstance      -> "Instance does not exist"
      [] r = RestartInvalidPayload  -> "YAML payload is corrupt"
      [] r = RestartInvalidData     ->
             "Command section of YAML payload is corrupt or missing required information"
      [] r = RestartAlreadyRunning  -> "Instance is already running"
      [] r = RestartInstanceCorrupt -> "Instance is corrupt"
      [] r = RestartLaunchFailure   -> "Failed to launch instance"
      [] OTHER                      -> ""

\* RestartFailureReason.String.
String(r) ==
    CASE r = RestartNoInstance      -> "Instance does not exist"
      [] r = RestartInvalidPayload  -> "YAML payload is corrupt"
      [] r = RestartInvalidData     ->
             "Command section of YAML payload is corrupt or missing required information"
      [] r = RestartAlreadyRunning  -> "Instance is already running"
      [] r = RestartInstanceCorrupt -> "Instance is corrupt"
      [] r = RestartLaunchFailure   -> "Failed to launch instance"
      [] r = RestartNetworkFailure  -> "Failed to locate VNIC for instance"
      [] OTHER                      -> ""

\* The table TestRestartFailureString checks String against.
stringTests ==
    { [r |-> RestartNoInstance,      expected |-> "Instance does not exist"],
      [r |-> RestartInvalidPayload,  expected |-> "YAML payload is corrupt"],
      [r |-> RestartInvalidData,     expected |->
          "Command section of YAML payload is corrupt or missing required information"],
      [r |-> RestartAlreadyRunning,  expected |-> "Instance is already running"],
      [r |-> RestartInstanceCorrupt, expected |-> "Instance is corrupt"],
      [r |-> RestartLaunchFailure,   expected |-> "Failed to launch instance"],
      [r |-> RestartNetworkFailure,  expected |-> "Failed to locate VNIC for instance"] }


(***************************************************************************)
(* The state.                                                              *)
(***************************************************************************)
VARIABLES
    networkingEnabled, \* networking.Enabled(): set once, before any command
    connected,         \* what conn.isConnected() answers now
    restarts,          \* restart commands dispatched so far
    pc,                \* per instance: where its restart stands
    vnicCfg,           \* per instance: processRestart's local vnicCfg
    vnicName,          \* per instance: processRestart's local vnicName
    ret,               \* per instance: what processRestart returned
    calls,             \* per instance: the calls of the current attempt, in order
    sent,              \* per instance: what the attempt handed to conn.SendError
    vnics,             \* the VNICs the network provisioner holds
    wire,              \* the frames conn.SendError was given, by all instances
    codec,             \* the payload under the codec
    prefix             \* findCommonPrefix: its argument, locals and result

engineVars ==
    << networkingEnabled, connected, restarts, pc, vnicCfg, vnicName, ret,
       calls, sent, vnics, wire >>

vars == << engineVars, codec, prefix >>

\* A *restartError, or nil.
Nil == << >>

restartError(err, code) == << [err |-> err, code |-> code] >>

\* One call as the attempt made it: the callee, its argument, its answer.
Call(fn, arg, result) == [fn |-> fn, arg |-> arg, result |-> result]

\* Where processRestart goes next, and what it has returned.
Goto(label) == [pc |-> label, ret |-> Nil]

Return(re) == [pc |-> "returned", ret |-> re]

(***************************************************************************)
(* processRestart, one step per call to a provisioning adapter.            *)
(***************************************************************************)
\* A processRestart that provisions a VNIC whatever the flag says.
AfterEntry_IgnoresFlag(enabled) == "createVnicCfg"

\* if networking.Enabled() { ... }
AfterEntry(enabled) == IF enabled THEN "createVnicCfg" ELSE "startVM"

\* A processRestart that goes on to createVnic with the configuration it failed
\* to build.
AfterCreateVnicCfg_Continues(err) == Goto("createVnic")

\* vnicCfg, err = createVnicCfg(cfg)
AfterCreateVnicCfg(err) ==
    IF err # NoErr
    THEN Return(restartError(err, RestartInstanceCorrupt))
    ELSE Goto("createVnic")

\* A processRestart that tries createVnic again when it fails.
AfterCreateVnic_Retries(err) ==
    IF err # NoErr THEN Goto("createVnic") ELSE Goto("startVM")

\* vnicName, _, err = createVnic(conn, vnicCfg)
AfterCreateVnic(err) ==
    IF err # NoErr
    THEN Return(restartError(err, RestartNetworkFailure))
    ELSE Goto("startVM")

\* A processRestart that drops startVM's error.
AfterStartVM_DropsError(err) == Return(Nil)

\* err = vm.startVM(vnicName, getNodeIPAddress())
AfterStartVM(err) ==
    IF err # NoErr
    THEN Return(restartError(err, RestartLaunchFailure))
    ELSE Return(Nil)

\* The dispatcher hands instance i a restart: processRestart is entered, its
\* locals hold their zero values.
Dispatch(i) ==
    /\ pc[i] \in {"idle", "done"}
    /\ restarts < MaxRestarts
    /\ restarts' = restarts + 1
    /\ pc' = [pc EXCEPT ![i] = AfterEntry(networkingEnabled)]
    /\ vnicCfg' = [vnicCfg EXCEPT ![i] = ""]
    /\ vnicName' = [vnicName EXCEPT ![i] = ""]
    /\ ret' = [ret EXCEPT ![i] = Nil]
    /\ calls' = [calls EXCEPT ![i] = << >>]
    /\ sent' = [sent EXCEPT ![i] = << >>]
    /\ UNCHANGED << networkingEnabled, connected, vnics, wire, codec, prefix >>

CreateVnicCfg(i) ==
    /\ pc[i] = "createVnicCfg"
    /\ \E err \in {NoErr, ErrVnicCfg} :
          /\ calls' = [calls EXCEPT ![i] = Append(@, Call("createVnicCfg", InstanceUUID(i), err))]
          /\ vnicCfg' = [vnicCfg EXCEPT ![i] = IF err = NoErr THEN InstanceUUID(i) ELSE ""]
          /\ pc' = [pc EXCEPT ![i] = AfterCreateVnicCfg(err).pc]
          /\ ret' = [ret EXCEPT ![i] = AfterCreateVnicCfg(err).ret]
    /\ UNCHANGED << networkingEnabled, connected, restarts, vnicName, sent, vnics, wire, codec, prefix >>

CreateVnic(i) ==
    /\ pc[i] = "createVnic"
    /\ \E err \in {NoErr, ErrVnic} :
          /\ calls' = [calls EXCEPT ![i] = Append(@, Call("createVnic", vnicCfg[i], err))]
          /\ vnicName' = [vnicName EXCEPT ![i] = IF err = NoErr THEN VnicPool[i] ELSE ""]
          /\ vnics' = IF err = NoErr THEN vnics \cup {VnicPool[i]} ELSE vnics
          /\ pc' = [pc EXCEPT ![i] = AfterCreateVnic(err).pc]
          /\ ret' = [ret EXCEPT ![i] = AfterCreateVnic(err).ret]
    /\ UNCHANGED << networkingEnabled, connected, restarts, vnicCfg, sent, wire, codec, prefix >>

\* A processRestart that destroys the VNIC it created when startVM fails.
StartVM_RollsBack(i) ==
    /\ pc[i] = "startVM"
    /\ \E err \in {NoErr, ErrStartVM} :
          /\ calls' = [calls EXCEPT ![i] =
                          IF err # NoErr /\ vnicName[i] # ""
                          THEN @ \o << Call("startVM", vnicName[i], err),
                                       Call("destroyVnic", vnicName[i], NoErr) >>
                          ELSE Append(@, Call("startVM", vnicName[i], err))]
          /\ vnics' = IF err # NoErr THEN vnics \ {vnicName[i]} ELSE vnics
          /\ pc' = [pc EXCEPT ![i] = AfterStartVM(err).pc]
          /\ ret' = [ret EXCEPT ![i] = AfterStartVM(err).ret]
    /\ UNCHANGED << networkingEnabled, connected, restarts, vnicCfg, vnicName, sent, wire, codec, prefix >>

\* A processRestart that keeps its result in a variable all attempts share.
StartVM_SharedResult(i) ==
    /\ pc[i] = "startVM"
    /\ \E err \in {NoErr, ErrStartVM} :
          /\ calls' = [calls EXCEPT ![i] = Append(@, Call("startVM", vnicName[i], err))]
          /\ pc' = [pc EXCEPT ![i] = AfterStartVM(err).pc]
          /\ ret' = [j \in Instances |-> AfterStartVM(err).ret]
    /\ UNCHANGED << networkingEnabled, connected, restarts, vnicCfg, vnicName, sent, vnics, wire, codec, prefix >>

StartVM(i) ==
    /\ pc[i] = "startVM"
    /\ \E err \in {NoErr, ErrStartVM} :
          /\ calls' = [calls EXCEPT ![i] = Append(@, Call("startVM", vnicName[i], err))]
          /\ pc' = [pc EXCEPT ![i] = AfterStartVM(err).pc]
          /\ ret' = [ret EXCEPT ![i] = AfterStartVM(err).ret]
    /\ UNCHANGED << networkingEnabled, connected, restarts, vnicCfg, vnicName, sent, vnics, wire, codec, prefix >>

(***************************************************************************)
(* restartError.send.                                                      *)
(***************************************************************************)
\* generateRestartError(instance, re): the restart_failure document.
generateRestartError(instance, re) ==
    [payload |-> Marshal(ErrorRestartFailure(instance, re.code)), err |-> NoErr]

\* The calls of a send that reaches conn.SendError, and what it hands over.
SendCalls(instance, genErr, sendErr) ==
    << Call("isConnected", "", "true"),
       Call("generateRestartError", instance, genErr),
       Call("SendError", SsntpRestartFailure, sendErr) >>

Frame(kind, payload) == [kind |-> kind, payload |-> payload]

\* A send that hands its payload to the channel twice.
send_Twice(re, isConnected, instance, sendErr) ==
    IF ~isConnected
    THEN [calls |-> << Call("isConnected", "", "false") >>, sent |-> << >>, re |-> re]
    ELSE LET gen == generateRestartError(instance, re)
         IN  [calls |-> SendCalls(instance, gen.err, sendErr)
                          \o << Call("SendError", SsntpRestartFailure, sendErr) >>,
              sent  |-> << Frame(SsntpRestartFailure, gen.payload),
                           Frame(SsntpRestartFailure, gen.payload) >>,
              re    |-> re]

\* A send that does not ask whether the channel is connected.
send_NoConnectionCheck(re, isConnected, instance, sendErr) ==
    LET gen == generateRestartError(instance, re)
    IN  [calls |-> << Call("generateRestartError", instance, gen.err),
                      Call("SendError", SsntpRestartFailure, sendErr) >>,
         sent  |-> << Frame(SsntpRestartFailure, gen.payload) >>,
         re    |-> re]

\* A send that reports the restart error as a start failure.
send_StartFailureKind(re, isConnected, instance, sendErr) ==
    IF ~isConnected
    THEN [calls |-> << Call("isConnected", "", "false") >>, sent |-> << >>, re |-> re]
    ELSE LET gen == generateRestartError(instance, re)
         IN  [calls |-> << Call("isConnected", "", "true"),
                           Call("generateRestartError", instance, gen.err),
                           Call("SendError", "StartFailure", sendErr) >>,
              sent  |-> << Frame("StartFailure", gen.payload) >>,
              re    |-> re]

\* A send that calls SendError again when it fails.
send_RetriesOnFailure(re, isConnected, instance, sendErr) ==
    IF ~isConnected
    THEN [calls |-> << Call("isConnected", "", "false") >>, sent |-> << >>, re |-> re]
    ELSE LET gen == generateRestartError(instance, re)
         IN  IF sendErr = NoErr
             THEN [calls |-> SendCalls(instance, gen.err, sendErr),
                   sent  |-> << Frame(SsntpRestartFailure, gen.payload) >>,
                   re    |-> re]
             ELSE [calls |-> SendCalls(instance, gen.err, sendErr)
                               \o << Call("SendError", SsntpRestartFailure, sendErr) >>,
                   sent  |-> << Frame(SsntpRestartFailure, gen.payload),
                                Frame(SsntpRestartFailure, gen.payload) >>,
                   re    |-> re]

\* What one call of re.send(conn, instance) does: the calls it makes, what it
\* hands to conn.SendError (which answers sendErr), and re as it leaves it.
send(re, isConnected, instance, sendErr) ==
    IF ~isConnected
    THEN [calls |-> << Call("isConnected", "", "false") >>, sent |-> << >>, re |-> re]
    ELSE LET gen == generateRestartError(instance, re)
         IN  IF gen.err # NoErr
             THEN [calls |-> << Call("isConnected", "", "true"),
                                Call("generateRestartError", instance, gen.err) >>,
                   sent  |-> << >>,
                   re    |-> re]
             ELSE [calls |-> SendCalls(instance, gen.err, sendErr),
                   sent  |-> << Frame(SsntpRestartFailure, gen.payload) >>,
                   re    |-> re]

\* The caller of processRestart: a restart error is sent, once; success
\* sends nothing.
Report(i) ==
    /\ pc[i] = "returned"
    /\ \E sendErr \in {NoErr, ErrSend} :
          LET out == send(ret[i][1], connected, InstanceUUID(i), sendErr)
          IN  IF ret[i] = Nil
              THEN UNCHANGED << ret, calls, sent, wire >>
              ELSE /\ ret' = [ret EXCEPT ![i] = << out.re >>]
                   /\ calls' = [calls EXCEPT ![i] = @ \o out.calls]
                   /\ sent' = [sent EXCEPT ![i] = @ \o out.sent]
                   /\ wire' = wire \o out.sent
    /\ pc' = [pc EXCEPT ![i] = "done"]
    /\ UNCHANGED << networkingEnabled, connected, restarts, vnicCfg, vnicName, vnics, codec, prefix >>

\* The transport loses and regains its connection on its own.
ChannelDown ==
    /\ connected
    /\ connected' = FALSE
    /\ UNCHANGED << networkingEnabled, restarts, pc, vnicCfg, vnicName, ret, calls, sent, vnics, wire, codec, prefix >>

ChannelUp ==
    /\ ~connected
    /\ connected' = TRUE
    /\ UNCHANGED << networkingEnabled, restarts, pc, vnicCfg, vnicName, ret, calls, sent, vnics, wire, codec, prefix >>

EngineIdle ==
    /\ connected = TRUE
    /\ restarts = 0
    /\ pc = [i \in Instances |-> "idle"]
    /\ vnicCfg = [i \in Instances |-> ""]
    /\ vnicName = [i \in Instances |-> ""]
    /\ ret = [i \in Instances |-> Nil]
    /\ calls = [i \in Instances |-> << >>]
    /\ sent = [i \in Instances |-> << >>]
    /\ vnics = {}
    /\ wire = << >>

Init ==
    /\ networkingEnabled \in BOOLEAN
    /\ EngineIdle
    /\ codec = [step |-> "off"]
    /\ prefix = [pc |-> "off"]

Next ==
    \/ \E i \in Instances : Dispatch(i)
    \/ \E i \in Instances : CreateVnicCfg(i)
    \/ \E i \in Instances : CreateVnic(i)
    \/ \E i \in Instances : StartVM(i)
    \/ \E i \in Instances : Report(i)
    \/ ChannelDown
    \/ ChannelUp

Spec == Init /\ [][Next]_vars


(***************************************************************************)
(* The codec and the descriptions on their own: a value is encoded and     *)
(* decoded back, a fixture is decoded and encoded back, a reason is        *)
(* described.                                                              *)
(***************************************************************************)
UUIDs == { UUIDPool[k] : k \in 1..NumUUIDs }

WellFormedValues ==
    { Command(cmd, u, a) : cmd \in CommandKinds, u \in UUIDs, a \in UUIDs }
      \cup { ErrorRestartFailure(u, r) : u \in UUIDs, r \in RestartFailureReason }

Fixtures ==
    { stopYaml(u, a) : u \in UUIDs, a \in UUIDs }
      \cup { deleteYaml(u, a) : u \in UUIDs, a \in UUIDs }
      \cup { restartFailureYaml(u, ReasonToken(r)) : u \in UUIDs, r \in RestartFailureReason }

InitCodec ==
    codec \in { [step |-> "value", x |-> x] : x \in WellFormedValues }
                \cup { [step |-> "fixture", doc |-> d] : d \in Fixtures }
                \cup { [step |-> "reason", r |-> r] : r \in RestartFailureReason }

Encode ==
    /\ codec.step = "value"
    /\ codec' = [step |-> "encoded", x |-> codec.x, doc |-> Marshal(codec.x)]
    /\ UNCHANGED << engineVars, prefix >>

Decode ==
    /\ codec.step = "encoded"
    /\ codec' = [step |-> "decoded", x |-> codec.x, doc |-> codec.doc,
                 back |-> Unmarshal(codec.doc)]
    /\ UNCHANGED << engineVars, prefix >>

DecodeFixture ==
    /\ codec.step = "fixture"
    /\ codec' = [step |-> "parsed", doc |-> codec.doc, back |-> Unmarshal(codec.doc)]
    /\ UNCHANGED << engineVars, prefix >>

ReEncode ==
    /\ codec.step = "parsed"
    /\ codec.back.ok
    /\ codec' = [step |-> "reencoded", doc |-> codec.doc, back |-> codec.back,
                 doc2 |-> Marshal(codec.back.value)]
    /\ UNCHANGED << engineVars, prefix >>

Describe ==
    /\ codec.step = "reason"
    /\ codec' = [step |-> "described", r |-> codec.r, s |-> String(codec.r)]
    /\ UNCHANGED << engineVars, prefix >>

InitC ==
    /\ networkingEnabled = FALSE
    /\ EngineIdle
    /\ InitCodec
    /\ prefix = [pc |-> "off"]

NextC == Encode \/ Decode \/ DecodeFixture \/ ReEncode \/ Describe

SpecCodec == InitC /\ [][NextC]_vars


(***************************************************************************)
(* What the claims speak of.                                               *)
(***************************************************************************)
\* The calls of instance i's current attempt to fn, by their place in the log.
CallsTo(i, fn) == { k \in DOMAIN calls[i] : calls[i][k].fn = fn }

Called(i, fn) == CallsTo(i, fn) # {}

CallCount(i, fn) == Cardinality(CallsTo(i, fn))

\* fn was called in instance i's current attempt and answered an error.
Failed(i, fn) == \E k \in CallsTo(i, fn) : calls[i][k].result # NoErr

\* fn was called in instance i's current attempt and every call succeeded.
Succeeded(i, fn) ==
    /\ Called(i, fn)
    /\ \A k \in CallsTo(i, fn) : calls[i][k].result = NoErr

\* processRestart has returned for instance i's current attempt.
Returned(i) == pc[i] \in {"returned", "done"}

\* It returned a restart error of this reason.
ReturnedReason(i, code) == Returned(i) /\ ret[i] # Nil /\ ret[i][1].code = code

(***************************************************************************)
(* C1.  With networking disabled, processRestart calls neither             *)
(* createVnicCfg nor createVnic, whatever the adapters answer, and the     *)
(* startVM it calls is given the empty VNIC name; once it has returned it  *)
(* has called startVM.                                                     *)
(***************************************************************************)
C1_NetworkingDisabledSkipsVnic ==
    ~networkingEnabled =>
        \A i \in Instances :
            /\ ~Called(i, "createVnicCfg")
            /\ ~Called(i, "createVnic")
            /\ \A k \in CallsTo(i, "startVM") : calls[i][k].arg = ""
            /\ Returned(i) => CallCount(i, "startVM") = 1

C1_Witness ==
    /\ ~networkingEnabled
    /\ \E i \in Instances :
          /\ Returned(i)
          /\ \E k \in CallsTo(i, "startVM") : calls[i][k].arg = ""

(***************************************************************************)
(* C2.  With networking enabled, when createVnicCfg fails processRestart   *)
(* has returned a restart error of reason InstanceCorrupt carrying that    *)
(* error, and the attempt calls neither createVnic nor startVM.            *)
(***************************************************************************)
C2_VnicCfgFailureIsInstanceCorrupt ==
    \A i \in Instances :
        (networkingEnabled /\ Failed(i, "createVnicCfg")) =>
            /\ ReturnedReason(i, RestartInstanceCorrupt)
            /\ ret[i][1].err = ErrVnicCfg
            /\ ~Called(i, "createVnic")
            /\ ~Called(i, "startVM")

C2_Witness ==
    /\ networkingEnabled
    /\ \E i \in Instances : pc[i] = "done" /\ Failed(i, "createVnicCfg")

(***************************************************************************)
(* C3.  With networking enabled, when createVnicCfg succeeds and           *)
(* createVnic fails, processRestart has returned a restart error of reason *)
(* NetworkFailure, createVnic was called exactly once and startVM is not   *)
(* called in the attempt.                                                  *)
(***************************************************************************)
C3_VnicFailureIsNetworkFailure ==
    \A i \in Instances :
        (networkingEnabled /\ Succeeded(i, "createVnicCfg") /\ Failed(i, "createVnic")) =>
            /\ ReturnedReason(i, RestartNetworkFailure)
            /\ ret[i][1].err = ErrVnic
            /\ CallCount(i, "createVnic") = 1
            /\ ~Called(i, "startVM")

C3_Witness ==
    /\ networkingEnabled
    /\ \E i \in Instances :
          /\ pc[i] = "done"
          /\ Succeeded(i, "createVnicCfg")
          /\ Failed(i, "createVnic")

(***************************************************************************)
(* C4.  In either networking mode, a returned processRestart gave reason   *)
(* LaunchFailure exactly when startVM was called, once, and failed; it     *)
(* gave nil exactly when every step it engaged, startVM included,          *)
(* succeeded; and with networking disabled and startVM failing createVnic  *)
(* was called 0 times.                                                     *)
(***************************************************************************)
EveryEngagedStepSucceeded(i) ==
    /\ Succeeded(i, "startVM")
    /\ networkingEnabled => Succeeded(i, "createVnicCfg") /\ Succeeded(i, "createVnic")
    /\ ~networkingEnabled => ~Called(i, "createVnicCfg") /\ ~Called(i, "createVnic")

C4_LaunchFailureAndSuccess ==
    \A i \in Instances :
        Returned(i) =>
            /\ ReturnedReason(i, RestartLaunchFailure)
                  <=> (CallCount(i, "startVM") = 1 /\ Failed(i, "startVM"))
            /\ (ret[i] = Nil) <=> EveryEngagedStepSucceeded(i)
            /\ (~networkingEnabled /\ Failed(i, "startVM")) => CallCount(i, "createVnic") = 0

C4_Witness ==
    \E i, j \in Instances :
        /\ pc[i] = "done" /\ ReturnedReason(i, RestartLaunchFailure)
        /\ pc[j] = "done" /\ ret[j] = Nil /\ Called(j, "startVM")


\* What conn.isConnected() answered when instance i's attempt called send.
SendSaw(i, answer) == \E k \in CallsTo(i, "isConnected") : calls[i][k].result = answer

\* The frame carries a restart_failure document of this instance and reason.
Carries(frame, instanceUUID, code) ==
    Unmarshal(frame.payload) = Decoded(ErrorRestartFailure(instanceUUID, code))

(***************************************************************************)
(* C5 as stated.  Whatever the state of the control channel, a failed      *)
(* restart attempt whose restart error was sent has handed exactly one     *)
(* restart_failure payload, carrying its reason, to the channel, and a     *)
(* successful attempt has handed none.                                     *)
(***************************************************************************)
C5_OnePayloadPerFailedAttempt ==
    \A i \in Instances :
        pc[i] = "done" =>
            /\ ret[i] # Nil =>
                   /\ Len(sent[i]) = 1
                   /\ Carries(sent[i][1], InstanceUUID(i), ret[i][1].code)
            /\ ret[i] = Nil => sent[i] = << >>

(***************************************************************************)
(* C5 as amended.  A failed restart attempt returns exactly one restart    *)
(* error carrying one reason of the taxonomy; when the caller has sent it, *)
(* exactly one restart_failure payload carrying that reason was handed to  *)
(* the channel if the channel reported connected, and none if it reported  *)
(* not connected; a successful attempt hands no payload to the channel,    *)
(* and nothing is handed over before send is called.                       *)
(***************************************************************************)
C5_OneReasonPerFailedAttempt ==
    \A i \in Instances :
        /\ pc[i] # "done" => sent[i] = << >>
        /\ Returned(i) =>
              /\ Len(ret[i]) <= 1
              /\ ret[i] # Nil => ret[i][1].code \in RestartFailureReason
        /\ pc[i] = "done" =>
              /\ ret[i] = Nil => sent[i] = << >> /\ ~Called(i, "isConnected")
              /\ ret[i] # Nil =>
                    /\ SendSaw(i, "true") \/ SendSaw(i, "false")
                    /\ SendSaw(i, "false") => sent[i] = << >>
                    /\ SendSaw(i, "true") =>
                          /\ Len(sent[i]) = 1
                          /\ Carries(sent[i][1], InstanceUUID(i), ret[i][1].code)

C5_Witness ==
    \E i, j \in Instances :
        /\ pc[i] = "done" /\ ret[i] # Nil /\ SendSaw(i, "true") /\ Len(sent[i]) = 1
        /\ pc[j] = "done" /\ ret[j] # Nil /\ SendSaw(j, "false") /\ sent[j] = << >>

(***************************************************************************)
(* C6.  A send called while the channel reports not connected performs no  *)
(* network action: it neither generates a payload nor calls SendError, it  *)
(* leaves the channel and the restart error as they were, and it returns.  *)
(***************************************************************************)
C6_SendWhenDisconnectedIsNoOp ==
    [][ \A i \in Instances :
           (pc[i] = "returned" /\ pc'[i] # pc[i] /\ ret[i] # Nil /\ ~connected) =>
               /\ pc'[i] = "done"
               /\ sent' = sent
               /\ ret' = ret
               /\ connected' = connected
               /\ \A k \in DOMAIN calls'[i] :
                      calls'[i][k].fn \notin {"generateRestartError", "SendError"} ]_vars

C6_Witness ==
    \E i \in Instances :
        /\ pc[i] = "done"
        /\ ret[i] # Nil
        /\ SendSaw(i, "false")
        /\ ~connected

(***************************************************************************)
(* C7.  A send called on a restart error while the channel is connected    *)
(* hands exactly one payload to the channel, in one SendError call of kind *)
(* RestartFailure, and the payload carries the restart error's reason and  *)
(* the instance UUID that was passed to send.                              *)
(***************************************************************************)
C7_SendWhenConnectedHandsOnePayload ==
    \A i \in Instances :
        (pc[i] = "done" /\ ret[i] # Nil /\ SendSaw(i, "true")) =>
            /\ CallCount(i, "SendError") = 1
            /\ \A k \in CallsTo(i, "SendError") : calls[i][k].arg = SsntpRestartFailure
            /\ Len(sent[i]) = 1
            /\ sent[i][1].kind = SsntpRestartFailure
            /\ Carries(sent[i][1], InstanceUUID(i), ret[i][1].code)

C7_Witness ==
    \E i \in Instances :
        /\ pc[i] = "done"
        /\ ReturnedReason(i, RestartNetworkFailure)
        /\ SendSaw(i, "true")
        /\ sent[i] = << Frame(SsntpRestartFailure,
                              restartFailureYaml(InstanceUUID(i), "network_failure")) >>

(***************************************************************************)
(* C8.  When the channel is connected and SendError fails, send has called *)
(* SendError once only, returns to its caller without an error, and leaves *)
(* the restart error (err and reason) as processRestart returned it.       *)
(***************************************************************************)
C8_SendFailureIsSwallowed ==
    [][ \A i \in Instances :
           (/\ pc[i] = "returned" /\ pc'[i] # pc[i] /\ ret[i] # Nil
            /\ \E k \in DOMAIN calls'[i] :
                   calls'[i][k].fn = "SendError" /\ calls'[i][k].result # NoErr) =>
               /\ pc'[i] = "done"
               /\ ret' = ret
               /\ Cardinality({ k \in DOMAIN calls'[i] : calls'[i][k].fn = "SendError" }) = 1
               /\ Len(sent'[i]) = 1 ]_vars

C8_Witness ==
    \E i \in Instances :
        /\ pc[i] = "done"
        /\ ret[i] # Nil
        /\ Failed(i, "SendError")
        /\ ret[i][1].err \in {ErrVnicCfg, ErrVnic, ErrStartVM}


(***************************************************************************)
(* C9.  String is total over the seven RestartFailureReason members and    *)
(* gives each the fixed description TestRestartFailureString expects:      *)
(*   NoInstance      "Instance does not exist"                             *)
(*   InvalidPayload  "YAML payload is corrupt"                             *)
(*   InvalidData     "Command section of YAML payload is corrupt or        *)
(*                    missing required information"                        *)
(*   AlreadyRunning  "Instance is already running"                         *)
(*   InstanceCorrupt "Instance is corrupt"                                 *)
(*   LaunchFailure   "Failed to launch instance"                           *)
(*   NetworkFailure  "Failed to locate VNIC for instance"                  *)
(* and none the empty string.                                              *)
(***************************************************************************)
C9_StringIsTotal ==
    /\ Cardinality(RestartFailureReason) = 7
    /\ { t.r : t \in stringTests } = RestartFailureReason
    /\ codec.step = "described" =>
          /\ codec.r \in RestartFailureReason
          /\ codec.s # ""
          /\ \A t \in stringTests : t.r = codec.r => t.expected = codec.s

C9_Witness ==
    /\ codec.step = "described"
    /\ codec.r = RestartAlreadyRunning
    /\ codec.s = "Instance is already running"

(***************************************************************************)
(* C10.  Over the bounded UUIDs and the seven reasons: a stop, delete or   *)
(* restart_failure value that is encoded and decoded comes back as itself; *)
(* a stop or delete value encodes to the document of the tests, under its  *)
(* single top-level key instance_uuid and then workload_agent_uuid; a      *)
(* document of the tests decodes, a stop or delete one to the command with *)
(* exactly its two fields; and decoded and encoded again it comes back as  *)
(* the same document.                                                      *)
(***************************************************************************)
C10_RoundTrip ==
    /\ codec.step = "encoded" =>
          /\ codec.x.type = "stop" =>
                 codec.doc = stopYaml(codec.x.InstanceUUID, codec.x.WorkloadAgentUUID)
          /\ codec.x.type = "delete" =>
                 codec.doc = deleteYaml(codec.x.InstanceUUID, codec.x.WorkloadAgentUUID)
    /\ codec.step = "decoded" => codec.back = Decoded(codec.x)
    /\ codec.step = "parsed" =>
          /\ codec.back.ok
          /\ codec.doc[1].key \in CommandKinds =>
                 codec.back.value =
                     Command(codec.doc[1].key, codec.doc[2].value, codec.doc[3].value)
    /\ codec.step = "reencoded" => codec.doc2 = codec.doc

C10_Witness ==
    /\ codec.step = "reencoded"
    /\ codec.doc = stopYaml("3390740c-dce9-48d6-b83a-a717417072ce",
                            "59460b8a-5f53-4e3e-b5ce-b71fed8c7e64")
    /\ codec.back = Decoded(Command("stop", "3390740c-dce9-48d6-b83a-a717417072ce",
                                    "59460b8a-5f53-4e3e-b5ce-b71fed8c7e64"))
    /\ codec.doc2 = codec.doc


(***************************************************************************)
(* C11.  With the restarts of two or more instances in flight at once,     *)
(* under every interleaving of their steps: what an attempt returned is    *)
(* what the answers to its own provisioning calls and the networking flag  *)
(* make it; the flag is never written; a step of one instance leaves the   *)
(* attempt of every other instance as it was; and the channel is handed a  *)
(* frame only by the send of a failed attempt, one frame per send on a     *)
(* connected channel, carrying that instance's UUID, no other instance's,  *)
(* and the reason that attempt returned.                                   *)
(***************************************************************************)
\* What the answers to instance i's own calls, and the flag, make its result.
OwnResult(i) ==
    IF networkingEnabled /\ Failed(i, "createVnicCfg")
    THEN restartError(ErrVnicCfg, RestartInstanceCorrupt)
    ELSE IF networkingEnabled /\ Failed(i, "createVnic")
    THEN restartError(ErrVnic, RestartNetworkFailure)
    ELSE IF Failed(i, "startVM")
    THEN restartError(ErrStartVM, RestartLaunchFailure)
    ELSE Nil

\* This step is instance i's caller sending the restart error of its attempt.
SendsNow(i) == pc[i] = "returned" /\ pc'[i] = "done" /\ ret[i] # Nil

\* The frame is instance i's report of its own result, and nobody else's.
OwnReport(frame, i) ==
    /\ frame.kind = SsntpRestartFailure
    /\ Carries(frame, UUIDPool[i], ret[i][1].code)
    /\ \A j \in Instances \ {i} :
           Unmarshal(frame.payload).value.InstanceUUID # UUIDPool[j]

C11_AttemptsAreIndependent ==
    [][ /\ networkingEnabled' = networkingEnabled
        /\ \A i \in Instances : Returned(i)' => ret'[i] = OwnResult(i)'
        /\ \A i \in Instances :
              pc'[i] # pc[i] =>
                  \A j \in Instances \ {i} :
                      /\ pc'[j] = pc[j]
                      /\ ret'[j] = ret[j]
                      /\ calls'[j] = calls[j]
                      /\ sent'[j] = sent[j]
                      /\ vnicName'[j] = vnicName[j]
        /\ \/ wire' = wire /\ \A i \in Instances : ~(SendsNow(i) /\ connected)
           \/ \E i \in Instances :
                 /\ SendsNow(i)
                 /\ connected
                 /\ Len(wire') = Len(wire) + 1
                 /\ SubSeq(wire', 1, Len(wire)) = wire
                 /\ OwnReport(wire'[Len(wire')], i) ]_vars

C11_Witness ==
    \E i, j \in Instances :
        /\ i # j
        /\ pc[i] = "done" /\ ReturnedReason(i, RestartLaunchFailure)
        /\ pc[j] = "done" /\ ReturnedReason(j, RestartNetworkFailure)
        /\ Len(wire) = 2
        /\ Carries(wire[1], UUIDPool[j], RestartNetworkFailure)
        /\ Carries(wire[2], UUIDPool[i], RestartLaunchFailure)
        /\ calls[i][1].fn = "createVnicCfg"


(***************************************************************************)
(* C12.  processRestart rolls nothing back: with networking enabled, when  *)
(* createVnic succeeded and startVM then failed, the attempt has returned  *)
(* reason LaunchFailure, the VNIC it created is still held by the network  *)
(* provisioner, and the attempt made no call other than createVnicCfg,     *)
(* createVnic, startVM and those of send (no teardown).                    *)
(***************************************************************************)
CallsOfTheEngine ==
    { "createVnicCfg", "createVnic", "startVM",
      "isConnected", "generateRestartError", "SendError" }

C12_NoRollbackAfterLaunchFailure ==
    \A i \in Instances :
        (networkingEnabled /\ Succeeded(i, "createVnic") /\ Failed(i, "startVM")) =>
            /\ ReturnedReason(i, RestartLaunchFailure)
            /\ vnicName[i] = VnicPool[i]
            /\ vnicName[i] \in vnics
            /\ \A k \in DOMAIN calls[i] : calls[i][k].fn \in CallsOfTheEngine
            /\ calls[i][3] = Call("startVM", vnicName[i], ErrStartVM)
            /\ pc[i] = "returned" => Len(calls[i]) = 3

C12_Witness ==
    \E i \in Instances :
        /\ networkingEnabled
        /\ pc[i] = "done"
        /\ Succeeded(i, "createVnic")
        /\ Failed(i, "startVM")
        /\ VnicPool[i] \in vnics


(***************************************************************************)
(* findCommonPrefix, one step per pass of its loops.  A string is the      *)
(* sequence of its characters.                                             *)
(***************************************************************************)
Alphabet == {"a", "b", "/"}

\* strings.LastIndex(s, c): the zero-based place of the last c in s, or -1.
LastIndex(s, c) ==
    IF \A k \in DOMAIN s : s[k] # c
    THEN -1
    ELSE (CHOOSE k \in DOMAIN s :
              s[k] = c /\ \A m \in DOMAIN s : s[m] = c => m <= k) - 1

\* s[:n]
Slice(s, n) == SubSeq(s, 1, n)

\* strings.HasPrefix(s, p)
HasPrefix(s, p) == Len(p) <= Len(s) /\ SubSeq(s, 1, Len(p)) = p

PackageNames == UNION { [1..n -> Alphabet] : n \in 1..MaxNameLen }

\* The Name of each *PackageTests of the list.
TestLists == UNION { [1..n -> PackageNames] : n \in 0..MaxTests }

InitPrefix ==
    prefix \in { [pc |-> "entry", tests |-> t, pkgName |-> << >>,
                  shadow |-> << >>, i |-> 0, result |-> << >>] : t \in TestLists }

\* if len(tests) == 0 { return "" };  pkgName := tests[0].Name
Enter ==
    /\ prefix.pc = "entry"
    /\ prefix' = IF Len(prefix.tests) = 0
                 THEN [prefix EXCEPT !.pc = "done", !.result = << >>]
                 ELSE [prefix EXCEPT !.pc = "outer", !.pkgName = prefix.tests[1]]
    /\ UNCHANGED << engineVars, codec >>

\* OUTER: one pass up to the inner loop.  The pkgName declared inside the
\* loop is a variable of its own (shadow); the one LastIndex reads is the
\* outer one, which nothing assigns after entry.
Outer ==
    /\ prefix.pc = "outer"
    /\ LET index == LastIndex(prefix.pkgName, "/")
       IN  prefix' = IF index = -1
                     THEN [prefix EXCEPT !.pc = "done", !.result = << >>]
                     ELSE [prefix EXCEPT !.pc = "inner",
                                         !.shadow = Slice(prefix.pkgName, index + 1),
                                         !.i = 1]
    /\ UNCHANGED << engineVars, codec >>

\* for i = 1; i < len(tests); i++ { ... continue OUTER };  return pkgName
Inner ==
    /\ prefix.pc = "inner"
    /\ prefix' = IF prefix.i < Len(prefix.tests)
                 THEN IF ~HasPrefix(prefix.tests[prefix.i + 1], prefix.shadow)
                      THEN [prefix EXCEPT !.pc = "outer"]
                      ELSE [prefix EXCEPT !.i = prefix.i + 1]
                 ELSE [prefix EXCEPT !.pc = "done", !.result = prefix.shadow]
    /\ UNCHANGED << engineVars, codec >>

InitP ==
    /\ networkingEnabled = FALSE
    /\ EngineIdle
    /\ codec = [step |-> "off"]
    /\ InitPrefix

NextP == Enter \/ Outer \/ Inner

\* A function that was called keeps running until it returns.
SpecPrefix == InitP /\ [][NextP]_vars /\ WF_vars(NextP)

(***************************************************************************)
(* C13.  findCommonPrefix terminates for every list of package names: it   *)
(* returns, for an empty list the empty string, for a non-empty list the   *)
(* empty string or a prefix ending in "/" that every name of the list      *)
(* starts with, also when some name does not start with the directory      *)
(* prefix of the first name.                                               *)
(***************************************************************************)
ResultOfFindCommonPrefix ==
    /\ Len(prefix.tests) = 0 => prefix.result = << >>
    /\ \/ prefix.result = << >>
       \/ /\ prefix.result[Len(prefix.result)] = "/"
          /\ \A k \in DOMAIN prefix.tests : HasPrefix(prefix.tests[k], prefix.result)

C13_FindCommonPrefixTerminates ==
    <>(prefix.pc = "done" /\ ResultOfFindCommonPrefix)

\* What does hold: a findCommonPrefix that returns, returns such a result.
FindCommonPrefixReturnsAPrefix ==
    prefix.pc = "done" => ResultOfFindCommonPrefix

\* The lists it does not return for: some name lacks the directory prefix of
\* the first.
SomeNameLacksThePrefix ==
    /\ prefix.pc \in {"outer", "inner"}
    /\ LastIndex(prefix.pkgName, "/") # -1
    /\ \E k \in DOMAIN prefix.tests :
           ~HasPrefix(prefix.tests[k],
                      Slice(prefix.pkgName, LastIndex(prefix.pkgName, "/") + 1))

FindCommonPrefixNeverReturnsThen ==
    [][SomeNameLacksThePrefix => prefix'.pc # "done"]_vars

=============================================================================
